---- MODULE Spec2Model ----
(***************************************************************************)
(* Model of lvgl-codegen (src/lvgl-codegen/src/lib.rs): the declaration    *)
(* loader, the widget extractor and the method / widget emitters.          *)
(*                                                                         *)
(* Strings are sequences of one-character strings, so that starts_with,    *)
(* ends_with, contains, replace and the widget-name regex are computed     *)
(* character by character as the code computes them.  A token stream is a  *)
(* sequence of tokens (each token a string or an identifier given as a     *)
(* character sequence).                                                    *)
(***************************************************************************)
EXTENDS Integers, Sequences, FiniteSets, TLC

(***************************************************************************)
(* Bounds of the model.                                                    *)
(***************************************************************************)
\* declarations in one input text
MaxDecls == 3
\* methods of a hand-built widget handed to LvWidget::code
MaxMethods == 2

(***************************************************************************)
(* String primitives (Rust str methods used by the code).                  *)
(***************************************************************************)
starts_with(s, p) ==
    /\ Len(p) <= Len(s)
    /\ SubSeq(s, 1, Len(p)) = p

ends_with(s, p) ==
    /\ Len(p) <= Len(s)
    /\ SubSeq(s, Len(s) - Len(p) + 1, Len(s)) = p

contains(s, p) ==
    \E i \in 1..(Len(s) - Len(p) + 1) : SubSeq(s, i, i + Len(p) - 1) = p

\* str::replace(pat, ""): every non-overlapping occurrence, left to right
RECURSIVE replace_with_empty(_, _)
replace_with_empty(s, pat) ==
    IF Len(s) < Len(pat) \/ Len(pat) = 0 THEN s
    ELSE IF starts_with(s, pat)
         THEN replace_with_empty(SubSeq(s, Len(pat) + 1, Len(s)), pat)
         ELSE <<Head(s)>> \o replace_with_empty(Tail(s), pat)

(***************************************************************************)
(* Program constants.                                                      *)
(***************************************************************************)
LIB_PREFIX == <<"l", "v", "_">>

t_u16  == <<"u", "1", "6">>
t_i32  == <<"i", "3", "2">>
t_u8   == <<"u", "8">>
t_bool == <<"b", "o", "o", "l">>
t_u32  == <<"u", "3", "2">>
t_i16  == <<"i", "1", "6">>
t_i8   == <<"i", "8">>
\* "* const cty :: c_char"
t_str  == <<"*", " ", "c", "o", "n", "s", "t", " ", "c", "t", "y", " ",
            ":", ":", " ", "c", "_", "c", "h", "a", "r">>
\* "lv_obj_t"
s_lv_obj_t == <<"l", "v", "_", "o", "b", "j", "_", "t">>
\* "* mut lv_obj_t" and "* const lv_obj_t": the spellings syn prints for
\* `*mut lv_obj_t` and `*const lv_obj_t`
t_mut_obj   == <<"*", " ", "m", "u", "t", " ">> \o s_lv_obj_t
t_const_obj == <<"*", " ", "c", "o", "n", "s", "t", " ">> \o s_lv_obj_t
\* "const lv_obj_t": a spelling that begins with the const qualifier
t_const_first == <<"c", "o", "n", "s", "t", " ">> \o s_lv_obj_t
\* "abc": the placeholder spelling of the unit tests
t_abc == <<"a", "b", "c">>
\* "lv_coord_t"
t_coord == <<"l", "v", "_", "c", "o", "o", "r", "d", "_", "t">>

\* TYPE_MAPPINGS: the keys, and the value of each key
TYPE_MAPPINGS_keys == {t_u16, t_i32, t_u8, t_bool, t_str}

TYPE_MAPPINGS_get(k) ==
    IF k = t_str THEN <<"_">> ELSE k

(***************************************************************************)
(* The typed intermediate model.                                           *)
(***************************************************************************)
LvType_new(literal_name) == [literal_name |-> literal_name]

LvArg_new(name, typ) == [name |-> name, typ |-> typ]

\* Option<LvType> is a sequence of at most one LvType
None == <<>>
Some(x) == <<x>>

LvFunc_new(name, args, ret) == [name |-> name, args |-> args, ret |-> ret]

is_const(typ) == starts_with(typ.literal_name, <<"c", "o", "n", "s", "t", " ">>)

is_str(typ) == ends_with(typ.literal_name, t_str)

is_method(f) ==
    IF f.args # <<>>
    THEN contains(f.args[1].typ.literal_name, s_lv_obj_t)
    ELSE FALSE

(***************************************************************************)
(* WrapperResult<T>: Ok(value) or Err(WrapperError::Skip).                 *)
(***************************************************************************)
Ok(v) == [ok |-> TRUE, val |-> v]

Skip == [ok |-> FALSE, err |-> "Skip"]

(***************************************************************************)
(* Identifiers.  syn::parse_str::<Ident> refuses a keyword, and the name   *)
(* is then emitted as the raw identifier r#name.                           *)
(***************************************************************************)
kw_type == <<"t", "y", "p", "e">>

RustKeywords == {kw_type}

get_name_ident(arg) ==
    IF arg.name \in RustKeywords THEN <<"r", "#">> \o arg.name ELSE arg.name

\* get_value_usage passing every argument by name, the string pointer too
get_value_usage_by_name(arg) ==
    [ident |-> get_name_ident(arg), usage |-> "value"]

\* LvArg::get_value_usage: the expression passed to the native call
get_value_usage(arg) ==
    IF is_str(arg.typ)
    THEN [ident |-> get_name_ident(arg), usage |-> "as_ptr"]
    ELSE [ident |-> get_name_ident(arg), usage |-> "value"]

\* LvArg::get_processing: no pre-processing statement is generated
get_processing(arg) == <<>>

(***************************************************************************)
(* Type Mapper: LvType::code.  The emitted type is a reference flag and a  *)
(* path.                                                                   *)
(***************************************************************************)
p_CStr == <<"c", "s", "t", "r", "_", "c", "o", "r", "e", ":", ":", "C", "S", "t", "r">>

LvType_code(typ) ==
    IF typ.literal_name \in TYPE_MAPPINGS_keys
    THEN LET name == TYPE_MAPPINGS_get(typ.literal_name)
         IN  IF is_str(typ)
             THEN Ok([ref |-> TRUE, path |-> p_CStr])
             ELSE IF contains(typ.literal_name, LIB_PREFIX)
                  THEN Ok([ref |-> TRUE, path |-> name])
                  ELSE Ok([ref |-> FALSE, path |-> name])
    ELSE Skip

\* LvArg::code: `name: type`, or Skip when the type is unsupported
LvArg_code(arg) ==
    LET typ == LvType_code(arg.typ)
    IN  IF typ.ok
        THEN Ok([kind |-> "param", name |-> get_name_ident(arg), typ |-> typ.val])
        ELSE Skip

(***************************************************************************)
(* Method Emitter: LvFunc::code.                                           *)
(***************************************************************************)
s_create == <<"c", "r", "e", "a", "t", "e">>

\* the receiver of the generated method and of the native call
recv_ref     == [kind |-> "&self", name |-> <<>>, typ |-> [ref |-> TRUE, path |-> <<>>]]
recv_mut_ref == [kind |-> "&mut self", name |-> <<>>, typ |-> [ref |-> TRUE, path |-> <<>>]]
recv_raw     == [ident |-> <<>>, usage |-> "self.core.raw().as_mut()"]

\* tokens
tk_unit == <<"(", ")">>
tk_semi == <<";">>
tk_Ok   == <<"O", "k">>

\* templ and new_name (lines 101-102)
templ(parent) == LIB_PREFIX \o parent.name \o <<"_">>

new_name(f, parent) == replace_with_empty(f.name, templ(parent))

\* the constructor fragment (lines 108-129): `create(parent)` calling the
\* native function with the parent's raw handle only, and `new()`
constructor_code(f) ==
    [kind |-> "constructor",
     entry_points |-> <<"create", "new">>,
     create_params |-> <<"parent: &mut impl crate::NativeObject">>,
     original_func_name |-> f.name,
     ffi_args |-> <<"parent.raw().as_mut()">>,
     on_null |-> "Err(crate::LvError::InvalidReference)",
     new_params |-> <<>>,
     new_body |-> "Self::create(&mut crate::display::get_scr_act()?)"]

\* the return match reusing the scalar spellings of the argument table
ReturnSpellings_of_type_table == {t_bool, t_i32, t_u16, t_u8}

\* the spellings of the supported return types (lines 139-147)
ReturnSpellings == {t_bool, t_u32, t_i32, t_u16, t_i16, t_u8, t_i8}

\* return_type (lines 133-150): a token stream, or Skip
return_type(f) ==
    IF f.ret = None
    THEN Ok(<<tk_unit>>)
    ELSE IF f.ret[1].literal_name \in ReturnSpellings
         THEN Ok(<<f.ret[1].literal_name>>)
         ELSE Skip

\* lines 153-155: every argument after the first can be generated
args_supported(f) ==
    \A i \in 2..Len(f.args) : LvArg_code(f.args[i]).ok

\* args_decl (lines 161-184)
args_decl(f) ==
    [i \in 1..Len(f.args) |->
        IF i = 1
        THEN IF is_const(f.args[1].typ) THEN recv_ref ELSE recv_mut_ref
        ELSE LvArg_code(f.args[i]).val]

\* args_processing (lines 186-208): the concatenation of the statements
args_processing(f) == <<>>

\* ffi_args (lines 215-235)
ffi_args(f) ==
    [i \in 1..Len(f.args) |->
        IF i = 1 THEN recv_raw ELSE get_value_usage(f.args[i])]

\* explicit_ok taking the unit return type `()` for an absent one
explicit_ok_for_unit(rt) ==
    IF rt = <<>> \/ rt = <<tk_unit>> THEN <<tk_Ok, <<"(">>, tk_unit, <<")">> >> ELSE <<>>

\* explicit_ok (lines 238-242): Ok(()) when the return-type token stream
\* is empty
explicit_ok(rt) ==
    IF rt = <<>> THEN <<tk_Ok, <<"(">>, tk_unit, <<")">> >> ELSE <<>>

\* optional_semicolon (lines 246-249)
optional_semicolon(f) ==
    IF f.ret = None THEN <<tk_semi>> ELSE <<>>

\* LvFunc::code with the return and argument checks ahead of the
\* constructor branch
LvFunc_code_checks_first(f, parent) ==
    IF ~return_type(f).ok THEN Skip
    ELSE IF ~args_supported(f) THEN Skip
    ELSE IF new_name(f, parent) = s_create
    THEN Ok(constructor_code(f))
    ELSE Ok([kind |-> "method",
             func_name |-> new_name(f, parent),
             args_decl |-> args_decl(f),
             return_type |-> return_type(f).val,
             args_processing |-> args_processing(f),
             original_func_name |-> f.name,
             ffi_args |-> ffi_args(f),
             optional_semicolon |-> optional_semicolon(f),
             explicit_ok |-> explicit_ok(return_type(f).val)])

LvFunc_code(f, parent) ==
    IF new_name(f, parent) = s_create
    THEN Ok(constructor_code(f))
    ELSE IF ~return_type(f).ok THEN Skip
    ELSE IF ~args_supported(f) THEN Skip
    ELSE Ok([kind |-> "method",
             func_name |-> new_name(f, parent),
             args_decl |-> args_decl(f),
             return_type |-> return_type(f).val,
             args_processing |-> args_processing(f),
             original_func_name |-> f.name,
             ffi_args |-> ffi_args(f),
             optional_semicolon |-> optional_semicolon(f),
             explicit_ok |-> explicit_ok(return_type(f).val)])

(***************************************************************************)
(* Widget Emitter: LvWidget::code.                                         *)
(***************************************************************************)
s_obj == <<"o", "b", "j">>

Lower == <<"a", "b", "c", "d", "e", "f", "g", "h", "i", "j", "k", "l", "m",
           "n", "o", "p", "q", "r", "s", "t", "u", "v", "w", "x", "y", "z">>
Upper == <<"A", "B", "C", "D", "E", "F", "G", "H", "I", "J", "K", "L", "M",
           "N", "O", "P", "Q", "R", "S", "T", "U", "V", "W", "X", "Y", "Z">>

to_upper(c) ==
    IF \E i \in 1..Len(Lower) : Lower[i] = c
    THEN Upper[CHOOSE i \in 1..Len(Lower) : Lower[i] = c]
    ELSE c

\* inflector's to_pascal_case on a snake_case name: the words between
\* underscores, each with its first letter in upper case
RECURSIVE pascal_from(_, _)
pascal_from(s, word_start) ==
    IF s = <<>> THEN <<>>
    ELSE IF Head(s) = "_" THEN pascal_from(Tail(s), TRUE)
    ELSE <<(IF word_start THEN to_upper(Head(s)) ELSE Head(s))>>
         \o pascal_from(Tail(s), FALSE)

pascal_name(w) == pascal_from(w.name, TRUE)

\* the collection stopping at the first Skip, as `collect` into a Result
\* would
RECURSIVE method_fragments_until_skip(_, _)
method_fragments_until_skip(methods, parent) ==
    IF methods = <<>> THEN <<>>
    ELSE LET r == LvFunc_code(Head(methods), parent)
         IN  IF r.ok
             THEN <<r.val>> \o method_fragments_until_skip(Tail(methods), parent)
             ELSE <<>>

\* flat_map over the methods: the Ok fragments, in order
RECURSIVE method_fragments(_, _)
method_fragments(methods, parent) ==
    IF methods = <<>> THEN <<>>
    ELSE LET r == LvFunc_code(Head(methods), parent)
         IN  (IF r.ok THEN <<r.val>> ELSE <<>>)
             \o method_fragments(Tail(methods), parent)

\* LvWidget::code skipping a widget for which no fragment was generated
LvWidget_code_skip_empty(w) ==
    IF w.name = s_obj \/ method_fragments(w.methods, w) = <<>>
    THEN Skip
    ELSE Ok([kind |-> "widget",
             widget_name |-> pascal_name(w),
             methods |-> method_fragments(w.methods, w)])

LvWidget_code(w) ==
    IF w.name = s_obj
    THEN Skip
    ELSE Ok([kind |-> "widget",
             widget_name |-> pascal_name(w),
             methods |-> method_fragments(w.methods, w)])

(***************************************************************************)
(* Widget Extractor: get_widget_names and extract_widgets.                 *)
(***************************************************************************)
\* the length of the longest prefix of s free of underscores: what the
\* greedy class [^_]+ consumes
RECURSIVE no_underscore_run(_)
no_underscore_run(s) ==
    IF s = <<>> \/ Head(s) = "_" THEN 0 ELSE 1 + no_underscore_run(Tail(s))

s__create == <<"_">> \o s_create

\* the regex ^lv_([^_]+)_create$ on a name: <<capture>> on a match, <<>>
\* otherwise.  After the prefix the class takes the run up to the first
\* underscore (a shorter run would have to be followed by an underscore),
\* the run must hold one character at least, and the rest of the name
\* must be exactly "_create".
create_func_captures(name) ==
    IF ~starts_with(name, LIB_PREFIX) THEN <<>>
    ELSE LET rest == SubSeq(name, Len(LIB_PREFIX) + 1, Len(name))
             k    == no_underscore_run(rest)
         IN  IF k >= 1 /\ SubSeq(rest, k + 1, Len(rest)) = s__create
             THEN <<SubSeq(rest, 1, k)>>
             ELSE <<>>

create_func_is_match(name) == create_func_captures(name) # <<>>

\* the filter without the test of the number of parameters
defines_widget_any_arity(f) == create_func_is_match(f.name)

\* the filter of get_widget_names (line 457)
defines_widget(f) == create_func_is_match(f.name) /\ Len(f.args) = 1

RECURSIVE get_widget_names(_)
get_widget_names(functions) ==
    IF functions = <<>> THEN <<>>
    ELSE (IF defines_widget(Head(functions))
          THEN <<create_func_captures(Head(functions).name)[1]>>
          ELSE <<>>)
         \o get_widget_names(Tail(functions))

\* the membership test of the grouping (lines 432-434)
is_widget_method(f, widget_name) ==
    /\ starts_with(f.name, LIB_PREFIX \o widget_name)
    /\ is_method(f)

\* entry_push putting the function at the head of the widget's methods
entry_push_front(ws, widget_name, f) ==
    [k \in (DOMAIN ws) \cup {widget_name} |->
        IF k = widget_name
        THEN IF k \in DOMAIN ws
             THEN [ws[k] EXCEPT !.methods = <<f>> \o @]
             ELSE [name |-> widget_name, methods |-> <<f>>]
        ELSE ws[k]]

\* ws.entry(name).or_insert_with(...).methods.push(f)
entry_push(ws, widget_name, f) ==
    [k \in (DOMAIN ws) \cup {widget_name} |->
        IF k = widget_name
        THEN IF k \in DOMAIN ws
             THEN [ws[k] EXCEPT !.methods = Append(@, f)]
             ELSE [name |-> widget_name, methods |-> <<f>>]
        ELSE ws[k]]

\* the inner loop over widget_names for one function
RECURSIVE group_function(_, _, _)
group_function(ws, f, widget_names) ==
    IF widget_names = <<>> THEN ws
    ELSE group_function(
            IF is_widget_method(f, Head(widget_names))
            THEN entry_push(ws, Head(widget_names), f)
            ELSE ws,
            f, Tail(widget_names))

\* the fold over the functions, from the empty HashMap
RECURSIVE group_all(_, _, _)
group_all(ws, functions, widget_names) ==
    IF functions = <<>> THEN ws
    ELSE group_all(group_function(ws, Head(functions), widget_names),
                   Tail(functions), widget_names)

EmptyMap == [k \in {} |-> k]

widgets_map(functions) ==
    group_all(EmptyMap, functions, get_widget_names(functions))

\* HashMap::values(): every key once, in an order the hasher decides
values_orders(ws) ==
    LET K == DOMAIN ws
        n == Cardinality(K)
    IN  { [i \in 1..n |-> ws[q[i]]] :
            q \in {p \in [1..n -> K] : \A i, j \in 1..n : p[i] = p[j] => i = j} }

\* extract_widgets: the lists it can return
extract_widgets(functions) == values_orders(widgets_map(functions))

(***************************************************************************)
(* Declaration Loader: load_func_defs.  An item of the input text is a     *)
(* foreign function (kind "fn") or another foreign item (kind "static").   *)
(***************************************************************************)
RECURSIVE load_func_defs(_)
load_func_defs(items) ==
    IF items = <<>> THEN <<>>
    ELSE (IF Head(items).kind = "fn" /\ starts_with(Head(items).name, LIB_PREFIX)
          THEN <<LvFunc_new(Head(items).name, Head(items).args, Head(items).ret)>>
          ELSE <<>>)
         \o load_func_defs(Tail(items))

get_function_names(functions) == [i \in 1..Len(functions) |-> functions[i].name]

(***************************************************************************)
(* Inputs: widget names, declaration names, parameters and declarations    *)
(* the bounded inputs are drawn from.                                      *)
(***************************************************************************)
w_bar     == <<"b", "a", "r">>
w_barcode == <<"b", "a", "r", "c", "o", "d", "e">>
w_btn     == <<"b", "t", "n">>
w_cb      == <<"c", "b">>

s__set == <<"_", "s", "e", "t">>

n_bar_create     == LIB_PREFIX \o w_bar \o s__create
n_barcode_create == LIB_PREFIX \o w_barcode \o s__create
n_btn_create     == LIB_PREFIX \o w_btn \o s__create
n_cb_create      == LIB_PREFIX \o w_cb \o s__create
n_obj_create     == LIB_PREFIX \o s_obj \o s__create
n_bar_set        == LIB_PREFIX \o w_bar \o s__set
n_barcode_set    == LIB_PREFIX \o w_barcode \o s__set
n_barcode_get    == LIB_PREFIX \o w_barcode \o <<"_", "g", "e", "t">>
\* "lv__create": nothing between the prefix and "_create"
n_empty_create   == LIB_PREFIX \o s__create
\* "lv_my_bar_create": an underscore inside the captured part
n_my_bar_create  == LIB_PREFIX \o <<"m", "y", "_">> \o w_bar \o s__create
\* "lv_bar_created": text after "_create"
n_bar_created    == n_bar_create \o <<"d">>
\* "my_bar_create": outside the library prefix
n_foreign_create == <<"m", "y", "_">> \o w_bar \o s__create
\* "lv_bar_lv_bar_create": the segment "lv_bar_" twice
n_bar_bar_create == LIB_PREFIX \o w_bar \o <<"_">> \o n_bar_create

a_obj   == <<"o", "b", "j">>
a_par   == <<"p", "a", "r">>
a_copy  == <<"c", "o", "p", "y">>
a_end   == <<"e", "n", "d">>
a_text  == <<"t", "e", "x", "t">>
a_on    == <<"o", "n">>

arg_mut_obj     == LvArg_new(a_obj, LvType_new(t_mut_obj))
arg_const_obj   == LvArg_new(a_obj, LvType_new(t_const_obj))
arg_const_first == LvArg_new(a_obj, LvType_new(t_const_first))
arg_abc         == LvArg_new(a_par, LvType_new(t_abc))
arg_copy        == LvArg_new(a_copy, LvType_new(t_const_obj))
arg_end         == LvArg_new(a_end, LvType_new(t_u16))
arg_text        == LvArg_new(a_text, LvType_new(t_str))
arg_on          == LvArg_new(a_on, LvType_new(t_bool))
arg_type        == LvArg_new(kw_type, LvType_new(t_u8))
arg_coord       == LvArg_new(a_end, LvType_new(t_coord))

r_obj == Some(LvType_new(t_mut_obj))

Item(kind, name, args, ret) == [kind |-> kind, name |-> name, args |-> args, ret |-> ret]

\* the foreign items of an input text
ItemPool ==
    { Item("fn", n_bar_create, <<arg_mut_obj>>, r_obj),
      Item("fn", n_barcode_create, <<arg_mut_obj>>, r_obj),
      Item("fn", n_bar_set, <<arg_mut_obj, arg_end>>, None),
      Item("fn", n_barcode_set, <<arg_const_obj, arg_coord>>, None),
      Item("fn", n_btn_create, <<arg_abc>>, None),
      Item("fn", n_obj_create, <<arg_mut_obj>>, r_obj),
      Item("fn", n_cb_create, <<arg_mut_obj, arg_copy>>, r_obj),
      Item("fn", n_empty_create, <<arg_mut_obj>>, r_obj),
      Item("fn", n_my_bar_create, <<arg_mut_obj>>, r_obj),
      Item("fn", n_bar_created, <<>>, Some(LvType_new(t_bool))),
      Item("fn", n_foreign_create, <<arg_mut_obj>>, r_obj),
      Item("fn", n_barcode_get, <<arg_mut_obj>>, Some(LvType_new(t_bool))),
      Item("fn", n_bar_bar_create, <<arg_mut_obj>>, r_obj),
      Item("static", n_bar_set, <<>>, None) }

\* the input texts: up to MaxDecls items, no name declared twice
Inputs ==
    UNION { { t \in [1..n -> ItemPool] :
                \A i, j \in 1..n : t[i].name = t[j].name => i = j } :
            n \in 0..MaxDecls }

(***************************************************************************)
(* The pipeline as a state machine: the same input text is run twice.      *)
(***************************************************************************)
VARIABLES
    input,      \* the items of the input text
    run,        \* the run in progress
    phase,      \* "from": before CodeGen::from; "emit": before the emission;
                \* "done": both runs are over
    functions,  \* per run, CodeGen.functions
    widgets,    \* per run, CodeGen.widgets
    output,     \* per run, the result of LvWidget::code for every widget
    call        \* the last direct call of an emitter, with its result

vars == <<input, run, phase, functions, widgets, output, call>>

Runs == {1, 2}

NoCall == [op |-> "none"]

Init ==
    /\ input \in Inputs
    /\ run = 1
    /\ phase = "from"
    /\ functions = [r \in Runs |-> <<>>]
    /\ widgets = [r \in Runs |-> <<>>]
    /\ output = [r \in Runs |-> <<>>]
    /\ call = NoCall

\* CodeGen::from: load_func_defs, then extract_widgets
CodeGenFrom ==
    /\ phase = "from"
    /\ LET fns == load_func_defs(input)
       IN  /\ functions' = [functions EXCEPT ![run] = fns]
           /\ \E ws \in extract_widgets(fns) :
                 widgets' = [widgets EXCEPT ![run] = ws]
    /\ phase' = "emit"
    /\ UNCHANGED <<input, run, output, call>>

\* the caller's loop: LvWidget::code for every widget, in get_widgets order
emit_all(ws) == [i \in 1..Len(ws) |-> LvWidget_code(ws[i])]

EmitWidgets ==
    /\ phase = "emit"
    /\ output' = [output EXCEPT ![run] = emit_all(widgets[run])]
    /\ IF run = 1
       THEN run' = 2 /\ phase' = "from"
       ELSE run' = run /\ phase' = "done"
    /\ UNCHANGED <<input, functions, widgets, call>>

Next == CodeGenFrom \/ EmitWidgets

Spec == Init /\ [][Next]_vars

(***************************************************************************)
(* Properties of the pipeline.                                             *)
(***************************************************************************)
Range(q) == {q[i] : i \in DOMAIN q}

\* run r has returned from CodeGen::from
Extracted(r) == r < run \/ (r = run /\ phase # "from")

\* the declaration d is in the method list of a widget named w of run r
InMethodList(r, w, d) ==
    \E i \in DOMAIN widgets[r] :
        widgets[r][i].name = w /\ d \in Range(widgets[r][i].methods)

\* the first parameter's type spelling holds the object-handle marker
FirstParamIsHandle(d) ==
    Len(d.args) >= 1 /\ contains(d.args[1].typ.literal_name, s_lv_obj_t)

\* the name is "lv_" + w + "_" followed by anything
HasWidgetSegment(d, w) == starts_with(d.name, LIB_PREFIX \o w \o <<"_">>)

\* C1: for every widget name W discovered from the loaded declarations, a
\* declaration D is in W's method list iff D's name starts with
\* "lv_" + W + "_" and D's first parameter's type spelling contains
\* "lv_obj_t"; a declaration failing either test is in no method list.
C1_MembershipBySegment ==
    \A r \in Runs :
        Extracted(r) =>
            \A d \in Range(functions[r]) :
                /\ \A w \in Range(get_widget_names(functions[r])) :
                      InMethodList(r, w, d)
                          <=> (HasWidgetSegment(d, w) /\ FirstParamIsHandle(d))
                /\ (\A w \in Range(get_widget_names(functions[r])) :
                        ~(HasWidgetSegment(d, w) /\ FirstParamIsHandle(d)))
                      => \A i \in DOMAIN widgets[r] :
                            d \notin Range(widgets[r][i].methods)

\* C3: the widget list has exactly one entry per discovered widget name,
\* also for a name no declaration qualifies for as a method, and no widget
\* name appears twice.
C3_OneEntryPerName ==
    \A r \in Runs :
        Extracted(r) =>
            /\ \A w \in Range(get_widget_names(functions[r])) :
                  Cardinality({i \in DOMAIN widgets[r] : widgets[r][i].name = w}) = 1
            /\ \A i \in DOMAIN widgets[r] :
                  widgets[r][i].name \in Range(get_widget_names(functions[r]))

\* C4: two runs of the full pipeline on the same input text yield the
\* same widgets in the same order, each with the same fragments in the
\* same order.
C4_RerunIdentical ==
    phase = "done" => (widgets[1] = widgets[2] /\ output[1] = output[2])

\* C5: after extract_widgets no declaration is in the method lists of two
\* distinct widgets.
C5_SingleOwner ==
    \A r \in Runs :
        Extracted(r) =>
            \A i, j \in DOMAIN widgets[r] :
                i # j =>
                    Range(widgets[r][i].methods) \cap Range(widgets[r][j].methods) = {}

(***************************************************************************)
(* The emitters and get_widget_names called directly, as the unit tests    *)
(* call them: one call on hand-built values, its result kept in `call`.    *)
(***************************************************************************)
n_bar_get == LIB_PREFIX \o w_bar \o <<"_", "g", "e", "t">>

t_u64 == <<"u", "6", "4">>

CodeNames ==
    {n_bar_create, n_barcode_create, n_obj_create, n_bar_set, n_barcode_set,
     n_bar_bar_create}

CodeArgLists ==
    { <<>>,
      <<arg_mut_obj>>,
      <<arg_const_obj>>,
      <<arg_const_first>>,
      <<arg_abc>>,
      <<arg_mut_obj, arg_end>>,
      <<arg_mut_obj, arg_text>>,
      <<arg_mut_obj, arg_copy>>,
      <<arg_const_obj, arg_type, arg_on>>,
      <<arg_mut_obj, arg_end, arg_coord>> }

CodeRets ==
    {None} \cup
    {Some(LvType_new(t)) :
        t \in {t_bool, t_u32, t_i32, t_u16, t_i16, t_u8, t_i8,
               t_mut_obj, t_str, t_coord, t_u64}}

FuncPool ==
    {LvFunc_new(n, a, r) : n \in CodeNames, a \in CodeArgLists, r \in CodeRets}

\* a parent as the unit tests build it: a name and no methods
Parent(name) == [name |-> name, methods |-> <<>>]

ParentPool == {Parent(w_bar), Parent(w_barcode), Parent(s_obj)}

\* the methods of the hand-built widgets
MethodPool ==
    { LvFunc_new(n_bar_create, <<arg_mut_obj, arg_copy>>, r_obj),
      LvFunc_new(n_bar_set, <<arg_mut_obj, arg_end>>, None),
      LvFunc_new(n_bar_set, <<arg_mut_obj, arg_text>>, None),
      LvFunc_new(n_bar_get, <<arg_const_obj>>, Some(LvType_new(t_bool))),
      LvFunc_new(n_bar_get, <<arg_const_obj>>, r_obj),
      LvFunc_new(n_barcode_set, <<arg_mut_obj, arg_coord>>, None),
      LvFunc_new(n_obj_create, <<arg_mut_obj>>, r_obj) }

SeqsUpTo(S, n) == UNION {[1..k -> S] : k \in 0..n}

WidgetPool ==
    {[name |-> w, methods |-> ms] :
        w \in {w_bar, w_barcode, s_obj}, ms \in SeqsUpTo(MethodPool, MaxMethods)}

\* the hand-built function lists handed to get_widget_names
NamedFuncPool ==
    {LvFunc_new(it.name, it.args, it.ret) : it \in {x \in ItemPool : x.kind = "fn"}}
    \cup {LvFunc_new(n_bar_create, <<>>, None)}

FuncLists == SeqsUpTo(NamedFuncPool, MaxDecls)

InitCode ==
    /\ input = <<>>
    /\ run = 1
    /\ phase = "api"
    /\ functions = [r \in Runs |-> <<>>]
    /\ widgets = [r \in Runs |-> <<>>]
    /\ output = [r \in Runs |-> <<>>]
    /\ call = NoCall

CallFuncCode ==
    /\ call = NoCall
    /\ \E f \in FuncPool, parent \in ParentPool :
          call' = [op |-> "LvFunc::code", func |-> f, parent |-> parent,
                   result |-> LvFunc_code(f, parent)]
    /\ UNCHANGED <<input, run, phase, functions, widgets, output>>

CallWidgetCode ==
    /\ call = NoCall
    /\ \E w \in WidgetPool :
          call' = [op |-> "LvWidget::code", widget |-> w,
                   result |-> LvWidget_code(w)]
    /\ UNCHANGED <<input, run, phase, functions, widgets, output>>

CallGetWidgetNames ==
    /\ call = NoCall
    /\ \E fs \in FuncLists :
          call' = [op |-> "get_widget_names", functions |-> fs,
                   result |-> get_widget_names(fs)]
    /\ UNCHANGED <<input, run, phase, functions, widgets, output>>

NextCode == CallFuncCode \/ CallWidgetCode \/ CallGetWidgetNames

SpecCode == InitCode /\ [][NextCode]_vars

(***************************************************************************)
(* Properties of the emitters and of get_widget_names.                     *)
(***************************************************************************)
Substrings(q) == {SubSeq(q, i, j) : i \in 1..(Len(q) + 1), j \in 0..Len(q)}

\* the X with name = "lv_" + X + "_create", X non-empty and free of
\* underscores
CreateCaptures(f) ==
    {x \in Substrings(f.name) :
        /\ f.name = <<"l", "v", "_">> \o x \o <<"_", "c", "r", "e", "a", "t", "e">>
        /\ x # <<>>
        /\ \A i \in DOMAIN x : x[i] # "_"}

Contributes(f) == CreateCaptures(f) # {} /\ Len(f.args) = 1

\* how many of the first i functions contribute a widget name
ContributorsUpTo(fs, i) == Cardinality({j \in 1..i : Contributes(fs[j])})

\* C2: get_widget_names returns X for a declaration exactly when its name
\* is "lv_" + X + "_create", X non-empty and free of underscores, and it
\* has exactly one parameter: the result lists, in order, the X of the
\* declarations of that shape (the name "obj" included) and nothing else.
C2_NamesFromCreate ==
    call.op = "get_widget_names" =>
        LET fs  == call.functions
            res == call.result
        IN  /\ Len(res) = ContributorsUpTo(fs, Len(fs))
            /\ \A k \in 1..Len(res) :
                  \E i \in 1..Len(fs) :
                      /\ Contributes(fs[i])
                      /\ ContributorsUpTo(fs, i) = k
                      /\ res[k] \in CreateCaptures(fs[i])

C2_Witness ==
    /\ call.op = "get_widget_names"
    /\ call.result = <<s_obj>>
    /\ \E i \in DOMAIN call.functions :
          call.functions[i].name = n_cb_create /\ Len(call.functions[i].args) = 2
    /\ \E i \in DOMAIN call.functions :
          call.functions[i].name = n_bar_create /\ Len(call.functions[i].args) = 0

\* the call is LvFunc::code and it took the regular-method path: the name
\* left after stripping (lines 101-107) is not "create"
RegularCall ==
    /\ call.op = "LvFunc::code"
    /\ new_name(call.func, call.parent) # s_create

\* a regular method was emitted for a declaration with a receiver
MethodEmitted ==
    /\ RegularCall
    /\ Len(call.func.args) >= 1
    /\ call.result.ok

\* the type spelling carries the const qualifier: "const T" or "* const T"
ConstQualified(typ) ==
    \/ starts_with(typ.literal_name, <<"c", "o", "n", "s", "t", " ">>)
    \/ starts_with(typ.literal_name, <<"*", " ", "c", "o", "n", "s", "t", " ">>)

\* C6: for every regular method emitted, the receiver is `&self` when the
\* first parameter's type is const-qualified (such as "* const lv_obj_t")
\* and `&mut self` otherwise, and the first parameter is not in the
\* explicit parameter list.
C6_ReceiverFollowsConst ==
    MethodEmitted =>
        LET decl == call.result.val.args_decl
        IN  /\ Len(decl) = Len(call.func.args)
            /\ decl[1].kind =
                  (IF ConstQualified(call.func.args[1].typ)
                   THEN "&self" ELSE "&mut self")
            /\ \A i \in 2..Len(decl) :
                  /\ decl[i].kind = "param"
                  /\ decl[i].name = get_name_ident(call.func.args[i])

\* C7 as stated: for every regular method emitted for a declaration with
\* no return type, the native call statement ends with a semicolon and
\* the body then ends with `Ok(())`.
C7_VoidBodyEndsWithOk ==
    (MethodEmitted /\ call.func.ret = None) =>
        /\ call.result.val.optional_semicolon = << <<";">> >>
        /\ call.result.val.explicit_ok = << <<"O", "k">>, <<"(">>, <<"(", ")">>, <<")">> >>

\* C7 as amended: for every regular method emitted for a declaration with
\* no return type, the declared return type is `()`, the native call
\* statement ends with a semicolon and no `Ok(())` follows it.
C7_VoidBodyEndsWithSemicolon ==
    (MethodEmitted /\ call.func.ret = None) =>
        /\ call.result.val.return_type = << <<"(", ")">> >>
        /\ call.result.val.optional_semicolon = << <<";">> >>
        /\ call.result.val.explicit_ok = <<>>

C7_Witness ==
    /\ MethodEmitted
    /\ call.func.ret = None
    /\ call.func.name = n_bar_set
    /\ call.func.args = <<arg_mut_obj, arg_end>>
    /\ call.parent.name = w_bar

\* the keys of the fixed type table, as the claims list them
TableSpellings ==
    { <<"u", "1", "6">>, <<"i", "3", "2">>, <<"u", "8">>, <<"b", "o", "o", "l">>,
      <<"*", " ", "c", "o", "n", "s", "t", " ", "c", "t", "y", " ",
        ":", ":", " ", "c", "_", "c", "h", "a", "r">> }

\* bool, u32, i32, u16, i16, u8, i8
ScalarSpellings ==
    { <<"b", "o", "o", "l">>, <<"u", "3", "2">>, <<"i", "3", "2">>,
      <<"u", "1", "6">>, <<"i", "1", "6">>, <<"u", "8">>, <<"i", "8">> }

ParamsSupported(f) ==
    \A i \in 2..Len(f.args) : f.args[i].typ.literal_name \in TableSpellings

\* C8: for a non-constructor declaration whose parameters are all
\* supported and whose return type is present, LvFunc::code succeeds iff
\* the return spelling is one of bool, u32, i32, u16, i16, u8, i8; the
\* emitted return type is then that spelling and the native call is the
\* result expression, with no semicolon and no Ok; any other spelling
\* yields Skip.
C8_ScalarReturnsOnly ==
    (RegularCall /\ ParamsSupported(call.func) /\ call.func.ret # None) =>
        LET spelling == call.func.ret[1].literal_name
        IN  /\ call.result.ok <=> spelling \in ScalarSpellings
            /\ call.result.ok =>
                  /\ call.result.val.kind = "method"
                  /\ call.result.val.return_type = <<spelling>>
                  /\ call.result.val.optional_semicolon = <<>>
                  /\ call.result.val.explicit_ok = <<>>
            /\ ~call.result.ok => call.result = Skip

C8_Witness ==
    /\ MethodEmitted
    /\ call.func.ret = Some(LvType_new(t_u32))
    /\ call.func.args = <<arg_mut_obj, arg_text>>
    /\ call.result.val.return_type = <<t_u32>>

\* the method yields Skip: it is a regular method whose return type is
\* unsupported or one of whose non-receiver parameters is not a key of
\* the type table
YieldsSkip(m, widget_name) ==
    /\ new_name(m, Parent(widget_name)) # s_create
    /\ \/ (m.ret # None /\ m.ret[1].literal_name \notin ScalarSpellings)
       \/ ~ParamsSupported(m)

\* the fragments of the methods that do not yield Skip, each generated on
\* its own for a widget of that name with no methods
RECURSIVE OwnFragments(_, _)
OwnFragments(ms, widget_name) ==
    IF ms = <<>> THEN <<>>
    ELSE (IF YieldsSkip(Head(ms), widget_name)
          THEN <<>>
          ELSE <<LvFunc_code(Head(ms), Parent(widget_name)).val>>)
         \o OwnFragments(Tail(ms), widget_name)

\* C9: LvWidget::code on a widget other than "obj" succeeds, and its
\* methods are exactly the fragments of the methods whose own
\* LvFunc::code succeeds, in order; a method that yields Skip is omitted
\* and changes no sibling's fragment.
C9_SkipIsLocal ==
    (call.op = "LvWidget::code" /\ call.widget.name # <<"o", "b", "j">>) =>
        /\ call.result.ok
        /\ call.result.val.methods
              = OwnFragments(call.widget.methods, call.widget.name)
        /\ \A i \in DOMAIN call.widget.methods :
              YieldsSkip(call.widget.methods[i], call.widget.name)
                  <=> ~LvFunc_code(call.widget.methods[i], call.widget).ok

C9_Witness ==
    /\ call.op = "LvWidget::code"
    /\ call.widget.name = w_bar
    /\ call.widget.methods =
          <<LvFunc_new(n_bar_get, <<arg_const_obj>>, r_obj),
            LvFunc_new(n_bar_set, <<arg_mut_obj, arg_end>>, None)>>
    /\ call.result.ok
    /\ Len(call.result.val.methods) = 1
    /\ call.result.val.methods[1].original_func_name = n_bar_set

\* C10: for a widget W and a declaration named "lv_" + W + "_create",
\* LvFunc::code succeeds with the constructor fragment (create(parent)
\* calling the native function with the parent's raw handle only,
\* InvalidReference on a null handle, and new() without arguments),
\* whatever the declaration's parameters and return type.
C10_CreateIsConstructor ==
    (/\ call.op = "LvFunc::code"
     /\ call.func.name
           = <<"l", "v", "_">> \o call.parent.name \o <<"_", "c", "r", "e", "a", "t", "e">>) =>
        /\ call.result.ok
        /\ call.result.val.kind = "constructor"
        /\ call.result.val.entry_points = <<"create", "new">>
        /\ call.result.val.original_func_name = call.func.name
        /\ call.result.val.ffi_args = <<"parent.raw().as_mut()">>
        /\ call.result.val.on_null = "Err(crate::LvError::InvalidReference)"
        /\ call.result.val.new_params = <<>>

C10_Witness ==
    /\ call.op = "LvFunc::code"
    /\ call.func = LvFunc_new(n_bar_create, <<arg_mut_obj, arg_copy>>, r_obj)
    /\ call.parent.name = w_bar
    /\ call.result.ok
    /\ call.result.val.kind = "constructor"

\* the PascalCase display names of the widget names
DisplayName(name) ==
    CASE name = <<"b", "a", "r">> -> <<"B", "a", "r">>
      [] name = <<"b", "a", "r", "c", "o", "d", "e">>
            -> <<"B", "a", "r", "c", "o", "d", "e">>
      [] name = <<"o", "b", "j">> -> <<"O", "b", "j">>

\* C11: LvWidget::code returns Skip for the widget named exactly "obj"
\* whatever its method list holds; for every other widget name it returns
\* a generated unit with the PascalCase display name and an
\* implementation scope, also when the method list is empty or every
\* method is skipped.  The result is decided by the widget alone, so a
\* Skip of "obj" leaves the units of the other widgets as they are.
C11_OnlyObjIsSkipped ==
    call.op = "LvWidget::code" =>
        IF call.widget.name = <<"o", "b", "j">>
        THEN call.result = Skip
        ELSE /\ call.result.ok
             /\ call.result.val.kind = "widget"
             /\ call.result.val.widget_name = DisplayName(call.widget.name)
             /\ Len(call.result.val.methods) <= Len(call.widget.methods)

\* a widget other than "obj" whose two methods are both skipped
C11_Witness ==
    /\ call.op = "LvWidget::code"
    /\ call.widget.name = w_barcode
    /\ call.widget.methods =
          <<LvFunc_new(n_barcode_set, <<arg_mut_obj, arg_coord>>, None),
            LvFunc_new(n_bar_get, <<arg_const_obj>>, r_obj)>>
    /\ call.result.ok
    /\ call.result.val.widget_name = <<"B", "a", "r", "c", "o", "d", "e">>
    /\ call.result.val.methods = <<>>

\* run r has emitted its widgets
Emitted(r) == r < run \/ phase = "done"

\* the name with its leading "lv_" + w + "_" removed; <<>> when the name
\* does not start with that segment
WithoutLeadingSegment(name, w) ==
    LET seg == <<"l", "v", "_">> \o w \o <<"_">>
    IN  IF Len(name) >= Len(seg) /\ SubSeq(name, 1, Len(seg)) = seg
        THEN SubSeq(name, Len(seg) + 1, Len(name))
        ELSE <<>>

\* C12: for every widget W produced by extract_widgets and every
\* declaration D of its method list, a regular method emitted for D is
\* named D's name with exactly the leading "lv_" + W + "_" removed, and
\* the constructor fragment is emitted only when D's name is exactly
\* "lv_" + W + "_create".
C12_NameIsStrippedOnce ==
    \A r \in Runs :
        Emitted(r) =>
            \A i \in DOMAIN output[r] :
                output[r][i].ok =>
                    \A k \in DOMAIN output[r][i].val.methods :
                        LET frag == output[r][i].val.methods[k]
                            w    == widgets[r][i].name
                        IN  /\ frag.kind = "method" =>
                                /\ WithoutLeadingSegment(frag.original_func_name, w) # <<>>
                                /\ frag.func_name
                                      = WithoutLeadingSegment(frag.original_func_name, w)
                            /\ frag.kind = "constructor" =>
                                frag.original_func_name
                                    = <<"l", "v", "_">> \o w \o <<"_", "c", "r", "e", "a", "t", "e">>

\* the type the fixed table gives a spelling: u16, i32, u8 and bool map
\* to themselves, "* const cty :: c_char" to &cstr_core::CStr
MappedType(spelling) ==
    IF spelling = <<"*", " ", "c", "o", "n", "s", "t", " ", "c", "t", "y", " ",
                    ":", ":", " ", "c", "_", "c", "h", "a", "r">>
    THEN [ref |-> TRUE,
          path |-> <<"c", "s", "t", "r", "_", "c", "o", "r", "e", ":", ":",
                     "C", "S", "t", "r">>]
    ELSE [ref |-> FALSE, path |-> spelling]

IsStringPointer(spelling) ==
    spelling = <<"*", " ", "c", "o", "n", "s", "t", " ", "c", "t", "y", " ",
                 ":", ":", " ", "c", "_", "c", "h", "a", "r">>

\* the identifier of a parameter name (a keyword is written r#name)
IdentOf(name) ==
    IF name = <<"t", "y", "p", "e">> THEN <<"r", "#", "t", "y", "p", "e">> ELSE name

\* C13: for every emitted regular method the explicit parameters are the
\* declaration's parameters 1..n in order, each with the type the fixed
\* table gives it, and the native call receives n+1 arguments in order:
\* the receiver's raw handle, then every other parameter, as
\* `name.as_ptr()` for a string pointer and as `name` otherwise.
C13_ArgsForwardedInOrder ==
    MethodEmitted =>
        LET f == call.func
            v == call.result.val
        IN  /\ Len(v.args_decl) = Len(f.args)
            /\ Len(v.ffi_args) = Len(f.args)
            /\ v.args_decl[1].kind \in {"&self", "&mut self"}
            /\ v.ffi_args[1] = [ident |-> <<>>, usage |-> "self.core.raw().as_mut()"]
            /\ v.original_func_name = f.name
            /\ \A i \in 2..Len(f.args) :
                  /\ f.args[i].typ.literal_name \in TableSpellings
                  /\ v.args_decl[i].kind = "param"
                  /\ v.args_decl[i].name = IdentOf(f.args[i].name)
                  /\ v.args_decl[i].typ = MappedType(f.args[i].typ.literal_name)
                  /\ v.ffi_args[i].ident = IdentOf(f.args[i].name)
                  /\ v.ffi_args[i].usage =
                        (IF IsStringPointer(f.args[i].typ.literal_name)
                         THEN "as_ptr" ELSE "value")

\* lv_bar_set(obj: *mut lv_obj_t, text: *const cty::c_char) in widget bar
C13_Witness ==
    /\ MethodEmitted
    /\ call.func = LvFunc_new(n_bar_set, <<arg_mut_obj, arg_text>>, None)
    /\ call.parent.name = w_bar
    /\ call.result.val.args_decl[2].typ.path = p_CStr
    /\ call.result.val.ffi_args[2] = [ident |-> a_text, usage |-> "as_ptr"]

\* an item of the input text the loader retains: a foreign function whose
\* name starts with "lv_"
Retained(item) ==
    /\ item.kind = "fn"
    /\ Len(item.name) >= 3
    /\ SubSeq(item.name, 1, 3) = <<"l", "v", "_">>

\* the declaration an item of the input text stands for
DeclOf(item) == [name |-> item.name, args |-> item.args, ret |-> item.ret]

\* the positions of the retained items of the input, in increasing order
RetainedPositions == {i \in DOMAIN input : Retained(input[i])}

\* the position in the input of the i-th retained item
NthRetained(i) ==
    CHOOSE p \in RetainedPositions :
        Cardinality({x \in RetainedPositions : x <= p}) = i

\* sub is an order-preserving subsequence of full
IsSubsequence(sub, full) ==
    \E q \in [DOMAIN sub -> DOMAIN full] :
        /\ \A a, b \in DOMAIN sub : a < b => q[a] < q[b]
        /\ \A a \in DOMAIN sub : sub[a] = full[q[a]]

\* C14: the loaded declaration list, and get_function_names, keep the
\* input order of the retained "lv_" declarations, and every widget's
\* method list is an order-preserving subsequence of the loaded list.
C14_DeclarationOrderKept ==
    \A r \in Runs :
        Extracted(r) =>
            LET names == get_function_names(functions[r])
            IN  /\ Len(functions[r]) = Cardinality(RetainedPositions)
                /\ Len(names) = Cardinality(RetainedPositions)
                /\ \A i \in 1..Cardinality(RetainedPositions) :
                      /\ functions[r][i] = DeclOf(input[NthRetained(i)])
                      /\ names[i] = input[NthRetained(i)].name
                /\ \A i \in DOMAIN widgets[r] :
                      IsSubsequence(widgets[r][i].methods, functions[r])

\* an input whose first item is dropped by the loader, followed by two
\* declarations that end up, in that order, in one widget
C14_Witness ==
    /\ Extracted(1)
    /\ Len(input) = 3
    /\ ~Retained(input[1])
    /\ Len(functions[1]) = 2
    /\ \E i \in DOMAIN widgets[1] :
          /\ Len(widgets[1][i].methods) = 2
          /\ widgets[1][i].methods[1] = DeclOf(input[2])
          /\ widgets[1][i].methods[2] = DeclOf(input[3])

====
